---- MODULE Spec2Model ----
(***************************************************************************)
(* imap.c - map for uint64_t integer keys (src/src/imap/imap.c).           *)
(*                                                                         *)
(* Memory is modelled explicitly: every calloc'ed block has an address,    *)
(* a node is addressed by <<block, index>>, and free() marks the block.    *)
(* The imap_t blocks live at the negative addresses, the children arrays   *)
(* (calloc at imap.c:417) at the addresses 1..MaxArrays.                   *)
(* An array of IMAP_NODE_SZ nodes is stored as the function from the slots *)
(* whose node is not all zero to those nodes; every other slot of the      *)
(* array holds the zeroed node calloc made.                                *)
(***************************************************************************)
EXTENDS Integers, Sequences, FiniteSets, TLC

IMAP_NODE_SZ == 32

NULL == 0

\* Size of the heap that holds children arrays; calloc fails when it is full.
MaxArrays == 4

\* Largest budget *n handed to imap_walkn.
MaxBudget == 5

\* Keys of depth 1 (0), depth 2 (32 and 64, in the children array of the slot
\* of key 0) and depth 3 (1056, which descends through the node of key 32).
Keys == {0, 32, 64, 1056}

\* Keys of the maps that are merged: one of each depth.
UnionKeys == {0, 32, 1056}

\* Non-null data pointers.
Values == {1, 2}

\* Which calloc of one imap_add call fails (0: none fails by choice).
FailAt == {0, 1, 2}

Maps == {1, 2}

ArrAddr == 1..MaxArrays

MapAddr(m) == 0 - m

MemAddr == {MapAddr(m) : m \in Maps} \cup ArrAddr

Slots == 0..(IMAP_NODE_SZ - 1)

\* imap_node_t after calloc: no data, no children, size 0.
ZeroNode == [data |-> NULL, nodes |-> NULL, size |-> 0]

\* An array of IMAP_NODE_SZ zeroed nodes.
ZeroArr == [i \in {} |-> ZeroNode]

\* A block that is not allocated.
FreeBlock == [alloc |-> FALSE, df |-> FALSE, len |-> 0, nodes |-> ZeroArr]

VARIABLES
    mem,    \* memory: address -> block [alloc, df, len, nodes]
    imap,   \* the callers' handles: map -> address of its imap_t, or NULL
    ref,    \* per value object, its reference count minus its count before the last call
    dict,   \* per map, what a plain dictionary would hold after the same calls
    op      \* the last call and what it returned

vars == <<mem, imap, ref, dict, op>>

\* The node nd = <<block, slot>> points to.
NodeAt(m, nd) ==
    IF nd[2] \in DOMAIN m[nd[1]].nodes THEN m[nd[1]].nodes[nd[2]] ELSE ZeroNode

\* *nd = node
Put(m, nd, node) ==
    LET old == m[nd[1]].nodes
        dom == IF node = ZeroNode THEN DOMAIN old \ {nd[2]} ELSE DOMAIN old \cup {nd[2]}
    IN  [m EXCEPT ![nd[1]].nodes = [j \in dom |-> IF j = nd[2] THEN node ELSE old[j]]]

SetData(m, nd, d) == Put(m, nd, [NodeAt(m, nd) EXCEPT !.data = d])

SetNodes(m, nd, p) == Put(m, nd, [NodeAt(m, nd) EXCEPT !.nodes = p])

SetSize(m, nd, s) == Put(m, nd, [NodeAt(m, nd) EXCEPT !.size = s])

SetLen(m, a, n) == [m EXCEPT ![a].len = n]

\* The allocator: the lowest free children-array address, NULL when none is left.
Calloc(m) ==
    IF \E a \in ArrAddr : ~m[a].alloc
    THEN CHOOSE a \in ArrAddr : ~m[a].alloc /\ \A b \in ArrAddr : b < a => m[b].alloc
    ELSE NULL

\* The block at p as calloc returns it: allocated and zeroed.
Zeroed(m, p) ==
    [m EXCEPT ![p] = [alloc |-> TRUE, df |-> m[p].df, len |-> 0, nodes |-> ZeroArr]]

\* free(p): the block is released; freeing a block that is not allocated is
\* recorded in df.
Free(m, p) ==
    IF m[p].alloc
    THEN [m EXCEPT ![p] = [FreeBlock EXCEPT !.df = m[p].df]]
    ELSE [m EXCEPT ![p].df = TRUE]

RECURSIVE IMAP_add(_, _, _, _, _, _)
RECURSIVE IMAP_get(_, _, _)
RECURSIVE IMAP_pop(_, _, _)
RECURSIVE IMAP_node_free(_, _)
RECURSIVE IMAP_node_free_loop(_, _, _)
RECURSIVE IMAP_node_free_cb(_, _)
RECURSIVE IMAP_node_free_cb_loop(_, _, _)
RECURSIVE IMAP_union_ref(_, _, _)
RECURSIVE IMAP_union_ref_loop(_, _, _, _)

\* IMAP_add after the children array of node is known to exist.
IMAP_add_descend(m, node, id, data, failAt, n) ==
    LET nd  == <<NodeAt(m, node).nodes, id % IMAP_NODE_SZ>>
        id1 == id \div IMAP_NODE_SZ
    IN  IF id1 = 0
        THEN LET rc == IF NodeAt(m, nd).data = NULL THEN 1 ELSE 0
                 m1 == SetData(m, nd, data)
             IN  [mem |-> SetSize(m1, node, NodeAt(m1, node).size + rc), rc |-> rc]
        ELSE LET r == IMAP_add(m, nd, id1 - 1, data, failAt, n)
             IN  IF r.rc > 0
                 THEN [mem |-> SetSize(r.mem, node, NodeAt(r.mem, node).size + 1),
                       rc |-> r.rc]
                 ELSE r

\* static int IMAP_add(node, id, data); n callocs were made before in this call
\* of imap_add, and calloc number failAt returns NULL.
IMAP_add(m, node, id, data, failAt, n) ==
    IF NodeAt(m, node).size = 0
    THEN LET p == IF n + 1 = failAt THEN NULL ELSE Calloc(m)
         IN  IF p = NULL
             THEN [mem |-> SetNodes(m, node, NULL), rc |-> -1]
             ELSE IMAP_add_descend(SetNodes(Zeroed(m, p), node, p),
                                   node, id, data, failAt, n + 1)
    ELSE IMAP_add_descend(m, node, id, data, failAt, n)

\* imap_add that forgets imap->len++ when it sets a top-level slot.
imap_add_noTopLen(m, h, id, data, failAt) ==
    LET nd  == <<h, id % IMAP_NODE_SZ>>
        id1 == id \div IMAP_NODE_SZ
    IN  IF id1 = 0
        THEN [mem |-> SetData(m, nd, data), rc |-> 0]
        ELSE LET r == IMAP_add(m, nd, id1 - 1, data, failAt, 0)
             IN  IF r.rc > 0
                 THEN [mem |-> SetLen(r.mem, h, r.mem[h].len + 1), rc |-> r.rc]
                 ELSE r

\* imap_add that tests "if (rc)" where the code tests "if (rc > 0)".
imap_add_lenOnError(m, h, id, data, failAt) ==
    LET nd  == <<h, id % IMAP_NODE_SZ>>
        id1 == id \div IMAP_NODE_SZ
    IN  IF id1 = 0
        THEN LET m1 == IF NodeAt(m, nd).data = NULL THEN SetLen(m, h, m[h].len + 1) ELSE m
             IN  [mem |-> SetData(m1, nd, data), rc |-> 0]
        ELSE LET r == IMAP_add(m, nd, id1 - 1, data, failAt, 0)
             IN  IF r.rc # 0
                 THEN [mem |-> SetLen(r.mem, h, r.mem[h].len + 1), rc |-> r.rc]
                 ELSE r

\* int imap_add(imap, id, data)
imap_add(m, h, id, data, failAt) ==
    LET nd  == <<h, id % IMAP_NODE_SZ>>
        id1 == id \div IMAP_NODE_SZ
    IN  IF id1 = 0
        THEN LET m1 == IF NodeAt(m, nd).data = NULL THEN SetLen(m, h, m[h].len + 1) ELSE m
             IN  [mem |-> SetData(m1, nd, data), rc |-> 0]
        ELSE LET r == IMAP_add(m, nd, id1 - 1, data, failAt, 0)
             IN  IF r.rc > 0
                 THEN [mem |-> SetLen(r.mem, h, r.mem[h].len + 1), rc |-> r.rc]
                 ELSE r

\* static void * IMAP_get(node, id)
IMAP_get(m, node, id) ==
    LET nd  == <<NodeAt(m, node).nodes, id % IMAP_NODE_SZ>>
        id1 == id \div IMAP_NODE_SZ
    IN  IF id1 = 0
        THEN NodeAt(m, nd).data
        ELSE IF NodeAt(m, nd).nodes = NULL THEN NULL ELSE IMAP_get(m, nd, id1 - 1)

\* imap_get that descends with id where the code descends with id - 1.
imap_get_noDecrement(m, h, id) ==
    LET nd  == <<h, id % IMAP_NODE_SZ>>
        id1 == id \div IMAP_NODE_SZ
    IN  IF id1 = 0
        THEN NodeAt(m, nd).data
        ELSE IF NodeAt(m, nd).nodes = NULL THEN NULL ELSE IMAP_get(m, nd, id1)

\* void * imap_get(imap, id)
imap_get(m, h, id) ==
    LET nd  == <<h, id % IMAP_NODE_SZ>>
        id1 == id \div IMAP_NODE_SZ
    IN  IF id1 = 0
        THEN NodeAt(m, nd).data
        ELSE IF NodeAt(m, nd).nodes = NULL THEN NULL ELSE IMAP_get(m, nd, id1 - 1)

\* The shrink step that releases the children array whatever the new size is.
IMAP_pop_shrink_always(m, node) ==
    LET m1 == SetSize(m, node, NodeAt(m, node).size - 1)
    IN  SetNodes(Free(m1, NodeAt(m1, node).nodes), node, NULL)

\* --node->size, and the children array released when it reaches 0
\* (imap.c:491-495).
IMAP_pop_shrink(m, node) ==
    LET sz == NodeAt(m, node).size - 1
        m1 == SetSize(m, node, sz)
    IN  IF sz # 0
        THEN m1
        ELSE SetNodes(Free(m1, NodeAt(m1, node).nodes), node, NULL)

\* static void * IMAP_pop(node, id)
IMAP_pop(m, node, id) ==
    LET nd  == <<NodeAt(m, node).nodes, id % IMAP_NODE_SZ>>
        id1 == id \div IMAP_NODE_SZ
    IN  IF id1 = 0
        THEN LET data == NodeAt(m, nd).data
             IN  IF data # NULL
                 THEN LET sz == NodeAt(m, node).size - 1
                          m1 == SetSize(m, node, sz)
                      IN  IF sz # 0
                          THEN [mem |-> SetData(m1, nd, NULL), data |-> data]
                          ELSE [mem |-> SetNodes(Free(m1, NodeAt(m1, node).nodes),
                                                 node, NULL),
                                data |-> data]
                 ELSE [mem |-> m, data |-> data]
        ELSE LET r == IF NodeAt(m, nd).nodes = NULL
                      THEN [mem |-> m, data |-> NULL]
                      ELSE IMAP_pop(m, nd, id1 - 1)
             IN  IF r.data # NULL
                 THEN [mem |-> IMAP_pop_shrink(r.mem, node), data |-> r.data]
                 ELSE r

\* imap_pop that decrements imap->len whether or not IMAP_pop found the key.
imap_pop_alwaysDec(m, h, id) ==
    LET nd  == <<h, id % IMAP_NODE_SZ>>
        id1 == id \div IMAP_NODE_SZ
    IN  IF id1 = 0
        THEN LET data == NodeAt(m, nd).data
             IN  IF data # NULL
                 THEN [mem |-> SetLen(SetData(m, nd, NULL), h, m[h].len - 1),
                       data |-> data]
                 ELSE [mem |-> m, data |-> data]
        ELSE LET r == IF NodeAt(m, nd).nodes = NULL
                      THEN [mem |-> m, data |-> NULL]
                      ELSE IMAP_pop(m, nd, id1 - 1)
             IN  [mem |-> SetLen(r.mem, h, r.mem[h].len - 1), data |-> r.data]

\* void * imap_pop(imap, id)
imap_pop(m, h, id) ==
    LET nd  == <<h, id % IMAP_NODE_SZ>>
        id1 == id \div IMAP_NODE_SZ
    IN  IF id1 = 0
        THEN LET data == NodeAt(m, nd).data
             IN  IF data # NULL
                 THEN [mem |-> SetLen(SetData(m, nd, NULL), h, m[h].len - 1),
                       data |-> data]
                 ELSE [mem |-> m, data |-> data]
        ELSE LET r == IF NodeAt(m, nd).nodes = NULL
                      THEN [mem |-> m, data |-> NULL]
                      ELSE IMAP_pop(m, nd, id1 - 1)
             IN  [mem |-> SetLen(r.mem, h,
                                 r.mem[h].len - (IF r.data # NULL THEN 1 ELSE 0)),
                  data |-> r.data]

\* The first slot at or after i of the array arr that holds data or children,
\* IMAP_NODE_SZ when there is none: the for loops over a node's slots do
\* nothing on the other slots.
NextSlot(m, arr, i) ==
    LET busy == {j \in DOMAIN m[arr].nodes :
                    j >= i /\ (m[arr].nodes[j].data # NULL \/ m[arr].nodes[j].nodes # NULL)}
    IN  IF busy = {}
        THEN IMAP_NODE_SZ
        ELSE CHOOSE j \in busy : \A l \in busy : j <= l

\* The loop of IMAP_node_free over the slots i.. of the array arr.
IMAP_node_free_loop(m, arr, i) ==
    LET j == NextSlot(m, arr, i)
    IN  IF j = IMAP_NODE_SZ
        THEN m
        ELSE IMAP_node_free_loop(
                 IF NodeAt(m, <<arr, j>>).nodes # NULL
                 THEN IMAP_node_free(m, <<arr, j>>)
                 ELSE m,
                 arr, j + 1)

\* static void IMAP_node_free(node)
IMAP_node_free(m, node) ==
    LET arr == NodeAt(m, node).nodes
    IN  Free(IMAP_node_free_loop(m, arr, 0), arr)

\* void imap_free(imap): the top-level loop runs IMAP_node_free on every slot
\* that has children, only when len is not 0.
imap_free(m, h) ==
    Free(IF m[h].len # 0 THEN IMAP_node_free_loop(m, h, 0) ELSE m, h)

\* The loop of IMAP_node_free_cb over the slots i.. of arr; s is [mem, cbs],
\* cbs the values the call-back has been called on, in order.
IMAP_node_free_cb_loop(s, arr, i) ==
    LET j == NextSlot(s.mem, arr, i)
    IN  IF j = IMAP_NODE_SZ
        THEN s
        ELSE LET nd == NodeAt(s.mem, <<arr, j>>)
                 s1 == IF nd.data # NULL
                       THEN [s EXCEPT !.cbs = Append(@, nd.data)]
                       ELSE s
             IN  IMAP_node_free_cb_loop(
                     IF nd.nodes # NULL THEN IMAP_node_free_cb(s1, <<arr, j>>) ELSE s1,
                     arr, j + 1)

\* static void IMAP_node_free_cb(node, cb, data)
IMAP_node_free_cb(s, node) ==
    LET arr == NodeAt(s.mem, node).nodes
        s1  == IMAP_node_free_cb_loop(s, arr, 0)
    IN  [s1 EXCEPT !.mem = Free(s1.mem, arr)]

\* void imap_free_cb(imap, cb, data)
imap_free_cb_lenAboveOne(m, h) ==
    LET s0 == [mem |-> m, cbs |-> <<>>]
        s1 == IF m[h].len > 1 THEN IMAP_node_free_cb_loop(s0, h, 0) ELSE s0
    IN  [s1 EXCEPT !.mem = Free(s1.mem, h)]

imap_free_cb(m, h) ==
    LET s0 == [mem |-> m, cbs |-> <<>>]
        s1 == IF m[h].len # 0 THEN IMAP_node_free_cb_loop(s0, h, 0) ELSE s0
    IN  [s1 EXCEPT !.mem = Free(s1.mem, h)]

RECURSIVE IMAP_walk(_, _, _, _)
RECURSIVE IMAP_walk_loop(_, _, _, _, _)
RECURSIVE IMAP_walkn(_, _, _, _)
RECURSIVE IMAP_walkn_loop(_, _, _, _, _)
RECURSIVE IMAP_2slist(_, _, _)
RECURSIVE IMAP_2slist_loop(_, _, _, _)
RECURSIVE IMAP_2slist_ref(_, _, _)
RECURSIVE IMAP_2slist_ref_loop(_, _, _, _)

WalkData_lastResult(s, data, cb) ==
    IF data # NULL
    THEN [cbs |-> Append(s.cbs, data), rc |-> cb[data]]
    ELSE s

\* rc += (*cb)(nd->data, data) when the slot holds data; the call-back cb is
\* the function from the value to what it returns, s is [cbs, rc], cbs the
\* values the call-back has been called on, in order.
WalkData(s, data, cb) ==
    IF data # NULL
    THEN [cbs |-> Append(s.cbs, data), rc |-> s.rc + cb[data]]
    ELSE s

IMAP_walk_step_nodesFirst(m, s, nd, cb) ==
    IF NodeAt(m, nd).nodes # NULL
    THEN WalkData(IMAP_walk(m, s, nd, cb), NodeAt(m, nd).data, cb)
    ELSE WalkData(s, NodeAt(m, nd).data, cb)

\* One iteration of the loop of IMAP_walk and imap_walk on the node nd: the
\* data, then the children.
IMAP_walk_step(m, s, nd, cb) ==
    IF NodeAt(m, nd).nodes # NULL
    THEN IMAP_walk(m, WalkData(s, NodeAt(m, nd).data, cb), nd, cb)
    ELSE WalkData(s, NodeAt(m, nd).data, cb)

\* The loop over the array arr from slot j on.
IMAP_walk_loop(m, s, arr, j, cb) ==
    IF j = IMAP_NODE_SZ
    THEN s
    ELSE IMAP_walk_loop(m, IMAP_walk_step(m, s, <<arr, j>>, cb), arr,
                        NextSlot(m, arr, j + 1), cb)

\* static void IMAP_walk(node, cb, data, rc)
IMAP_walk(m, s, node, cb) ==
    IMAP_walk_loop(m, s, NodeAt(m, node).nodes,
                   NextSlot(m, NodeAt(m, node).nodes, 0), cb)

\* int imap_walk(imap, cb, data)
imap_walk(m, h, cb) ==
    IF m[h].len # 0
    THEN IMAP_walk_loop(m, [cbs |-> <<>>, rc |-> 0], h, NextSlot(m, h, 0), cb)
    ELSE [cbs |-> <<>>, rc |-> 0]

\* nd->data != NULL && !(*n -= (*cb)(nd->data, data)): s is [cbs, n].
WalknData(s, data, cb) ==
    IF data # NULL
    THEN [cbs |-> Append(s.cbs, data), n |-> s.n - cb[data]]
    ELSE s

\* The children half of one iteration; it is not reached when the data half
\* returned because *n became 0 (*n is not 0 when the iteration starts).
WalknNodes(m, s, nd, cb) ==
    IF s.n # 0 /\ NodeAt(m, nd).nodes # NULL
    THEN IMAP_walkn(m, s, nd, cb)
    ELSE s

IMAP_walkn_loop_noBudgetTest(m, s, arr, j, cb) ==
    IF j = IMAP_NODE_SZ
    THEN s
    ELSE IMAP_walkn_loop(
             m, WalknNodes(m, WalknData(s, NodeAt(m, <<arr, j>>).data, cb),
                           <<arr, j>>, cb),
             arr, NextSlot(m, arr, j + 1), cb)

\* The loop "for (i = 0; *n && i < IMAP_NODE_SZ; i++)" from slot j on.
IMAP_walkn_loop(m, s, arr, j, cb) ==
    IF s.n = 0 \/ j = IMAP_NODE_SZ
    THEN s
    ELSE IMAP_walkn_loop(
             m, WalknNodes(m, WalknData(s, NodeAt(m, <<arr, j>>).data, cb),
                           <<arr, j>>, cb),
             arr, NextSlot(m, arr, j + 1), cb)

\* static void IMAP_walkn(node, cb, data, n)
IMAP_walkn(m, s, node, cb) ==
    IMAP_walkn_loop(m, s, NodeAt(m, node).nodes,
                    NextSlot(m, NodeAt(m, node).nodes, 0), cb)

\* void imap_walkn(imap, n, cb, data)
imap_walkn(m, h, n, cb) ==
    IF m[h].len # 0
    THEN IMAP_walkn_loop(m, [cbs |-> <<>>, n |-> n], h, NextSlot(m, h, 0), cb)
    ELSE [cbs |-> <<>>, n |-> n]

\* slist_new(size): a list of capacity size, NULL (ptr 0) when the allocation
\* fails.
slist_new(size, ok) ==
    [ptr |-> IF ok THEN 1 ELSE NULL, cap |-> size, items |-> <<>>]

\* slist_append(slist, data)
slist_append(sl, data) == [sl EXCEPT !.items = Append(@, data)]

\* slist_object_incref(data): one more reference to the object.
slist_object_incref(r, v) == [r EXCEPT ![v] = @ + 1]

IMAP_2slist_step_elseIf(m, sl, nd) ==
    IF NodeAt(m, nd).nodes # NULL
    THEN IMAP_2slist(m, sl, nd)
    ELSE IF NodeAt(m, nd).data # NULL
         THEN slist_append(sl, NodeAt(m, nd).data)
         ELSE sl

\* One iteration of the loop of IMAP_2slist and imap_2slist on the node nd.
IMAP_2slist_step(m, sl, nd) ==
    IF NodeAt(m, nd).nodes # NULL
    THEN IMAP_2slist(m, IF NodeAt(m, nd).data # NULL
                        THEN slist_append(sl, NodeAt(m, nd).data)
                        ELSE sl,
                     nd)
    ELSE IF NodeAt(m, nd).data # NULL
         THEN slist_append(sl, NodeAt(m, nd).data)
         ELSE sl

IMAP_2slist_loop(m, sl, arr, j) ==
    IF j = IMAP_NODE_SZ
    THEN sl
    ELSE IMAP_2slist_loop(m, IMAP_2slist_step(m, sl, <<arr, j>>), arr,
                          NextSlot(m, arr, j + 1))

\* static void IMAP_2slist(node, slist)
IMAP_2slist(m, sl, node) ==
    IMAP_2slist_loop(m, sl, NodeAt(m, node).nodes,
                     NextSlot(m, NodeAt(m, node).nodes, 0))

\* The body of imap_2slist once slist_new has returned sl.
imap_2slist_fill(m, h, sl) ==
    IF sl.ptr # NULL /\ m[h].len # 0
    THEN IMAP_2slist_loop(m, sl, h, NextSlot(m, h, 0))
    ELSE sl

\* slist_t * imap_2slist(imap); ok: slist_new succeeds.
imap_2slist(m, h, ok) == imap_2slist_fill(m, h, slist_new(m[h].len, ok))

SlistRefData_setOne(s, data) ==
    IF data # NULL
    THEN [sl |-> slist_append(s.sl, data), ref |-> [s.ref EXCEPT ![data] = 1]]
    ELSE s

\* slist_append(slist, nd->data); slist_object_incref(nd->data): s is
\* [sl, ref].
SlistRefData(s, data) ==
    IF data # NULL
    THEN [sl |-> slist_append(s.sl, data), ref |-> slist_object_incref(s.ref, data)]
    ELSE s

\* One iteration of the loop of IMAP_2slist_ref and imap_2slist_ref.
IMAP_2slist_ref_step(m, s, nd) ==
    IF NodeAt(m, nd).nodes # NULL
    THEN IMAP_2slist_ref(m, SlistRefData(s, NodeAt(m, nd).data), nd)
    ELSE SlistRefData(s, NodeAt(m, nd).data)

IMAP_2slist_ref_loop(m, s, arr, j) ==
    IF j = IMAP_NODE_SZ
    THEN s
    ELSE IMAP_2slist_ref_loop(m, IMAP_2slist_ref_step(m, s, <<arr, j>>), arr,
                              NextSlot(m, arr, j + 1))

\* static void IMAP_2slist_ref(node, slist)
IMAP_2slist_ref(m, s, node) ==
    IMAP_2slist_ref_loop(m, s, NodeAt(m, node).nodes,
                         NextSlot(m, NodeAt(m, node).nodes, 0))

\* The body of imap_2slist_ref once slist_new has returned s.sl.
imap_2slist_ref_fill(m, h, s) ==
    IF s.sl.ptr # NULL /\ m[h].len # 0
    THEN IMAP_2slist_ref_loop(m, s, h, NextSlot(m, h, 0))
    ELSE s

\* slist_t * imap_2slist_ref(imap); r: the reference counts, ok: slist_new
\* succeeds.
imap_2slist_ref(m, r, h, ok) ==
    imap_2slist_ref_fill(m, h, [sl |-> slist_new(m[h].len, ok), ref |-> r])

\* slist_object_decref(data): one reference to the object is released.
slist_object_decref(r, v) == [r EXCEPT ![v] = @ - 1]

\* The data half that releases a reference also when it moves the value to dest.
UnionData_decrefAlways(s, dest_nd, node_nd) ==
    LET data == NodeAt(s.mem, node_nd).data
    IN  IF data # NULL
        THEN IF NodeAt(s.mem, dest_nd).data # NULL
             THEN [mem |-> s.mem, ref |-> slist_object_decref(s.ref, data), inc |-> 0]
             ELSE [mem |-> SetData(s.mem, dest_nd, data),
                   ref |-> slist_object_decref(s.ref, data), inc |-> 1]
        ELSE [mem |-> s.mem, ref |-> s.ref, inc |-> 0]

\* The data half of one loop iteration of the union (imap.c:328-344 and
\* 591-607): s is [mem, ref]; inc is what the iteration adds to the count of
\* the enclosing level.
UnionData(s, dest_nd, node_nd) ==
    LET data == NodeAt(s.mem, node_nd).data
    IN  IF data # NULL
        THEN IF NodeAt(s.mem, dest_nd).data # NULL
             THEN [mem |-> s.mem, ref |-> slist_object_decref(s.ref, data), inc |-> 0]
             ELSE [mem |-> SetData(s.mem, dest_nd, data), ref |-> s.ref, inc |-> 1]
        ELSE [mem |-> s.mem, ref |-> s.ref, inc |-> 0]

\* The state s with the count of what was added set to n.
WithInc(s, n) == [mem |-> s.mem, ref |-> s.ref, inc |-> n]

\* The transplant that moves the children array and leaves the size behind.
Transplant_noSize(m, dest_nd, node_nd, src) ==
    SetNodes(SetNodes(m, dest_nd, src.nodes), node_nd, NULL)

\* dest_nd takes the children array and the size of node_nd, and node_nd lets
\* go of the array (imap.c:356-359 and 619-622).
Transplant(m, dest_nd, node_nd, src) ==
    SetNodes(SetSize(SetNodes(m, dest_nd, src.nodes), dest_nd, src.size),
             node_nd, NULL)

\* dest_nd->size - tmp after the recursive call returned r (imap.c:352, 615).
SizeDelta(r, dest_nd, tmp) == WithInc(r, NodeAt(r.mem, dest_nd).size - tmp)

\* The children half that forgets to add the transplanted size to the count.
UnionNodes_noCount(s, dest_nd, node_nd) ==
    IF NodeAt(s.mem, node_nd).nodes # NULL
    THEN IF NodeAt(s.mem, dest_nd).nodes # NULL
         THEN SizeDelta(IMAP_union_ref(s, dest_nd, node_nd), dest_nd,
                        NodeAt(s.mem, dest_nd).size)
         ELSE [mem |-> Transplant(s.mem, dest_nd, node_nd, NodeAt(s.mem, node_nd)),
               ref |-> s.ref, inc |-> 0]
    ELSE WithInc(s, 0)

\* The children half of one loop iteration (imap.c:346-361 and 609-624).
UnionNodes(s, dest_nd, node_nd) ==
    IF NodeAt(s.mem, node_nd).nodes # NULL
    THEN IF NodeAt(s.mem, dest_nd).nodes # NULL
         THEN SizeDelta(IMAP_union_ref(s, dest_nd, node_nd), dest_nd,
                        NodeAt(s.mem, dest_nd).size)
         ELSE [mem |-> Transplant(s.mem, dest_nd, node_nd, NodeAt(s.mem, node_nd)),
               ref |-> s.ref, inc |-> NodeAt(s.mem, node_nd).size]
    ELSE WithInc(s, 0)

\* dest->size += s.inc
AddToSize(s, dest) ==
    [mem |-> SetSize(s.mem, dest, NodeAt(s.mem, dest).size + s.inc), ref |-> s.ref]

\* dest->len += s.inc
AddToLen(s, d) ==
    [mem |-> SetLen(s.mem, d, s.mem[d].len + s.inc), ref |-> s.ref]

\* One iteration of the loop of IMAP_union_ref, on slot j of the children
\* arrays da of dest and na of node: the data, then the children, each adding
\* to dest->size.
IMAP_union_ref_step(s, dest, da, na, j) ==
    AddToSize(UnionNodes(AddToSize(UnionData(s, <<da, j>>, <<na, j>>), dest),
                         <<da, j>>, <<na, j>>),
              dest)

\* The loop of IMAP_union_ref from slot j on (IMAP_NODE_SZ: the loop is over).
IMAP_union_ref_loop(s, dest, node, j) ==
    IF j = IMAP_NODE_SZ
    THEN s
    ELSE IMAP_union_ref_loop(
             IMAP_union_ref_step(s, dest, NodeAt(s.mem, dest).nodes,
                                 NodeAt(s.mem, node).nodes, j),
             dest, node,
             NextSlot(s.mem, NodeAt(s.mem, node).nodes, j + 1))

\* free(p) in the state s.
FreeIn(s, p) == [mem |-> Free(s.mem, p), ref |-> s.ref]

\* static void IMAP_union_ref(dest, node)
IMAP_union_ref(s, dest, node) ==
    FreeIn(IMAP_union_ref_loop(s, dest, node,
                               NextSlot(s.mem, NodeAt(s.mem, node).nodes, 0)),
           NodeAt(s.mem, node).nodes)

\* One iteration of the loop of imap_union_ref, on the top-level slot j of the
\* maps at d and h; each half adds to dest->len.
imap_union_ref_step(s, d, h, j) ==
    AddToLen(UnionNodes(AddToLen(UnionData(s, <<d, j>>, <<h, j>>), d),
                        <<d, j>>, <<h, j>>),
             d)

RECURSIVE imap_union_ref_loop(_, _, _, _)
\* The loop of imap_union_ref from slot j on.
imap_union_ref_loop(s, d, h, j) ==
    IF j = IMAP_NODE_SZ
    THEN s
    ELSE imap_union_ref_loop(imap_union_ref_step(s, d, h, j), d, h,
                             NextSlot(s.mem, h, j + 1))

\* void imap_union_ref(dest, imap): the loop runs when the source has entries,
\* and the source map h is freed at the end.
imap_union_ref(m, r, d, h) ==
    FreeIn(IF m[h].len # 0
           THEN imap_union_ref_loop([mem |-> m, ref |-> r], d, h, NextSlot(m, h, 0))
           ELSE [mem |-> m, ref |-> r],
           h)

\* imap_t * imap_new(void): calloc of the map and its 32 top-level nodes.
imap_new(m, a) ==
    [m EXCEPT ![a] = [alloc |-> TRUE, df |-> m[a].df, len |-> 0, nodes |-> ZeroArr]]

EmptyDict == [k \in Keys |-> NULL]

NoRefChange == [v \in Values |-> 0]

Call(name, m, key, val, rc, ret, cbs) ==
    [name |-> name, m |-> m, key |-> key, val |-> val, rc |-> rc, ret |-> ret,
     cbs |-> cbs]

Init ==
    /\ mem = [a \in MemAddr |-> IF a = MapAddr(1) THEN imap_new([b \in MemAddr |-> FreeBlock], a)[a]
                                ELSE FreeBlock]
    /\ imap = [m \in Maps |-> IF m = 1 THEN MapAddr(1) ELSE NULL]
    /\ ref = NoRefChange
    /\ dict = [m \in Maps |-> EmptyDict]
    /\ op = Call("new", 1, 0, NULL, 0, NULL, <<>>)

\* The caller creates map i; imap_new returns NULL when the allocation fails.
New(i) ==
    /\ imap[i] = NULL
    /\ \E ok \in BOOLEAN :
        /\ mem' = IF ok THEN imap_new(mem, MapAddr(i)) ELSE mem
        /\ imap' = [imap EXCEPT ![i] = IF ok THEN MapAddr(i) ELSE NULL]
    /\ dict' = [dict EXCEPT ![i] = EmptyDict]
    /\ op' = Call("new", i, 0, NULL, 0, NULL, <<>>)
    /\ ref' = NoRefChange

Add(i, K, F) ==
    /\ imap[i] # NULL
    /\ \E k \in K, v \in Values, f \in F :
        LET r == imap_add(mem, imap[i], k, v, f)
        IN  /\ mem' = r.mem
            /\ dict' = IF r.rc >= 0 THEN [dict EXCEPT ![i][k] = v] ELSE dict
            /\ op' = Call("add", i, k, v, r.rc, NULL, <<>>)
    /\ ref' = NoRefChange
    /\ UNCHANGED imap

Get(i, K) ==
    /\ imap[i] # NULL
    /\ \E k \in K :
        op' = Call("get", i, k, NULL, 0, imap_get(mem, imap[i], k), <<>>)
    /\ ref' = NoRefChange
    /\ UNCHANGED <<mem, imap, dict>>

Pop(i, K) ==
    /\ imap[i] # NULL
    /\ \E k \in K :
        LET r == imap_pop(mem, imap[i], k)
        IN  /\ mem' = r.mem
            /\ dict' = [dict EXCEPT ![i][k] = NULL]
            /\ op' = Call("pop", i, k, NULL, 0, r.data, <<>>)
    /\ ref' = NoRefChange
    /\ UNCHANGED imap

\* imap_free(imap); the caller drops its handle.
FreeMap(i) ==
    /\ imap[i] # NULL
    /\ mem' = imap_free(mem, imap[i])
    /\ imap' = [imap EXCEPT ![i] = NULL]
    /\ dict' = [dict EXCEPT ![i] = EmptyDict]
    /\ op' = Call("free", i, 0, NULL, 0, NULL, <<>>)
    /\ ref' = NoRefChange

\* imap_free_cb(imap, cb, data); the caller drops its handle.
FreeMapCb(i) ==
    /\ imap[i] # NULL
    /\ LET r == imap_free_cb(mem, imap[i])
       IN  /\ mem' = r.mem
           /\ op' = Call("free_cb", i, 0, NULL, 0, NULL, r.cbs)
    /\ imap' = [imap EXCEPT ![i] = NULL]
    /\ dict' = [dict EXCEPT ![i] = EmptyDict]
    /\ ref' = NoRefChange

\* What a call-back may return to imap_walk.
WalkResults == {-1, 0, 2}

\* What a call-back may return to imap_walkn: never more than the budget *n
\* that is left, which is at least 1 when the call-back is called.
WalknResults == {0, 1}

\* imap_walk(imap, cb, data) with a call-back that returns cb[value]; r is
\* what the walk computes.
WalkCall(i, cb, r) == Call("walk", i, 0, cb, r.rc, NULL, r.cbs)

Walk(i) ==
    /\ imap[i] # NULL
    /\ \E cb \in [Values -> WalkResults] :
        op' = WalkCall(i, cb, imap_walk(mem, imap[i], cb))
    /\ ref' = NoRefChange
    /\ UNCHANGED <<mem, imap, dict>>

\* imap_walkn(imap, &n, cb, data); key is *n before the call, ret is *n
\* afterwards.
WalknCall(i, n, cb, r) == Call("walkn", i, n, cb, 0, r.n, r.cbs)

Walkn(i) ==
    /\ imap[i] # NULL
    /\ \E cb \in [Values -> WalknResults], n \in 0..MaxBudget :
        op' = WalknCall(i, n, cb, imap_walkn(mem, imap[i], n, cb))
    /\ ref' = NoRefChange
    /\ UNCHANGED <<mem, imap, dict>>

\* imap_2slist(imap); rc is -1 when it returns NULL, ret the capacity of the
\* list, cbs its items.
SlistCall(name, i, sl) ==
    Call(name, i, 0, NULL, IF sl.ptr = NULL THEN -1 ELSE 0, sl.cap, sl.items)

ToSlist(i) ==
    /\ imap[i] # NULL
    /\ \E ok \in BOOLEAN :
        op' = SlistCall("2slist", i, imap_2slist(mem, imap[i], ok))
    /\ ref' = NoRefChange
    /\ UNCHANGED <<mem, imap, dict>>

\* imap_2slist_ref(imap); ref is what the call adds to the reference counts.
SlistRefReturns(i, s) ==
    /\ op' = SlistCall("2slist_ref", i, s.sl)
    /\ ref' = s.ref

ToSlistRef(i) ==
    /\ imap[i] # NULL
    /\ \E ok \in BOOLEAN :
        SlistRefReturns(i, imap_2slist_ref(mem, NoRefChange, imap[i], ok))
    /\ UNCHANGED <<mem, imap, dict>>

\* What the caller guarantees when it merges map j into map i: a key stored in
\* both maps holds the same object in both (the assert of imap.c:334).
UnionContract(i, j) ==
    \A k \in Keys :
        LET a == imap_get(mem, imap[i], k)
            b == imap_get(mem, imap[j], k)
        IN  a # NULL /\ b # NULL => a = b

\* The memory and the reference counts become those of r.
Returns(r) == mem' = r.mem /\ ref' = r.ref

\* imap_union_ref(dest, &imap) with dest map i and source map j; the caller's
\* handle of the source is set to NULL (imap.c:367).
Union(i, j) ==
    /\ imap[i] # NULL /\ imap[j] # NULL
    /\ UnionContract(i, j)
    /\ Returns(imap_union_ref(mem, NoRefChange, imap[i], imap[j]))
    /\ imap' = [imap EXCEPT ![j] = NULL]
    /\ dict' = [dict EXCEPT
                   ![i] = [k \in Keys |-> IF dict[i][k] # NULL THEN dict[i][k]
                                                              ELSE dict[j][k]],
                   ![j] = EmptyDict]
    /\ op' = Call("union", i, 0, NULL, 0, NULL, <<>>)

Next ==
    \/ New(1)
    \/ Add(1, Keys, FailAt)
    \/ Get(1, Keys)
    \/ Pop(1, Keys)
    \/ FreeMap(1)
    \/ FreeMapCb(1)

Spec == Init /\ [][Next]_vars

\* Two maps, built by add and pop, and merged: the caller builds the
\* destination, then the source, and merges; then it goes on with the
\* destination.
\* One map that is filled, emptied and traversed.
NextWalk ==
    \/ Add(1, Keys, FailAt)
    \/ Pop(1, Keys)
    \/ Walk(1)
    \/ ToSlist(1)
    \/ ToSlistRef(1)

SpecWalk == Init /\ [][NextWalk]_vars

\* One map that is filled, emptied and walked with a budget.
NextWalkn ==
    \/ Add(1, Keys, FailAt)
    \/ Pop(1, Keys)
    \/ Walkn(1)

SpecWalkn == Init /\ [][NextWalkn]_vars

NextUnion ==
    \/ New(2)
    \/ imap[2] = NULL /\ Add(1, UnionKeys, FailAt)
    \/ imap[2] = NULL /\ Pop(1, UnionKeys)
    \/ Add(2, UnionKeys, FailAt)
    \/ Pop(2, UnionKeys)
    \/ Union(1, 2)

SpecUnion == Init /\ [][NextUnion]_vars

(***************************************************************************)
(* The claims.                                                             *)
(***************************************************************************)

\* The keys imap_get finds in the map at h.
Stored(m, h) == {k \in Keys : imap_get(m, h, k) # NULL}

\* The children arrays some node of block a points to.
ChildArrays(m, a) == {m[a].nodes[j].nodes : j \in DOMAIN m[a].nodes} \ {NULL}

RECURSIVE ReachFrom(_, _)
\* The blocks reachable from the blocks S through nodes pointers.
ReachFrom(m, S) ==
    LET N == S \cup UNION {ChildArrays(m, a) : a \in S}
    IN  IF N = S THEN S ELSE ReachFrom(m, N)

\* C1: in every state reached by add and pop calls, imap->len equals the number
\* of distinct keys whose most recent operation was an add not followed by a pop.
C1_CountIsStoredKeys ==
    \A i \in Maps :
        imap[i] # NULL =>
            mem[imap[i]].len = Cardinality({k \in Keys : dict[i][k] # NULL})

\* A pop has just removed one of three keys of depth 1, 2 and 3.
C1_Witness ==
    /\ imap[1] # NULL
    /\ op.name = "pop" /\ op.ret # NULL /\ op.key = 64
    /\ mem[imap[1]].len = 3

\* C2: the map is a plain dictionary: imap_get(k) returns for every key k the
\* value of the most recent add(k, v) not followed by pop(k), and NULL otherwise
\* (so a call on one key never changes what get returns for another key).
C2_GetIsDictionary ==
    \A i \in Maps :
        imap[i] # NULL => \A k \in Keys : imap_get(mem, imap[i], k) = dict[i][k]

\* Keys 0 and 1056 hold different values, 32 on the path of 1056 holds one, and
\* the sibling 64 was popped.
C2_Witness ==
    /\ imap[1] # NULL
    /\ op.name = "pop" /\ op.key = 64 /\ op.ret = 2
    /\ imap_get(mem, imap[1], 0) = 1
    /\ imap_get(mem, imap[1], 32) = 1
    /\ imap_get(mem, imap[1], 1056) = 2
    /\ imap_get(mem, imap[1], 64) = NULL

\* C3: for every key, keys below 32 included, a successful add returns 1
\* (Inserted) exactly when the key was not stored before the call and 0
\* (Overwritten) exactly when it was.
C3_AddReportsInserted ==
    [][(op'.name = "add" /\ op'.rc # -1) =>
          /\ op'.rc = 1 <=> imap_get(mem, imap[op'.m], op'.key) = NULL
          /\ op'.rc = 0 <=> imap_get(mem, imap[op'.m], op'.key) # NULL]_vars

\* C4: pop(k) of a stored key returns its value, afterwards get(k) returns NULL,
\* len is one less than before, and every other key keeps its value.
C4_PopRemovesOne ==
    [][\A k \in Keys :
          (op'.name = "pop" /\ op'.key = k /\ imap_get(mem, imap[op'.m], k) # NULL) =>
              /\ op'.ret = imap_get(mem, imap[op'.m], k)
              /\ imap_get(mem', imap'[op'.m], k) = NULL
              /\ mem'[imap'[op'.m]].len = mem[imap[op'.m]].len - 1
              /\ \A k2 \in Keys \ {k} :
                     imap_get(mem', imap'[op'.m], k2) = imap_get(mem, imap[op'.m], k2)]_vars

\* Key 32 was popped while its sibling 64 and its descendant 1056 stay stored.
C4_Witness ==
    /\ imap[1] # NULL
    /\ op.name = "pop" /\ op.key = 32 /\ op.ret # NULL
    /\ imap_get(mem, imap[1], 64) # NULL
    /\ imap_get(mem, imap[1], 1056) # NULL

\* C5: pop(k) of a key that is not stored returns NULL and leaves the whole
\* memory as it was: len, every size, every data slot, every children array.
C5_PopAbsentChangesNothing ==
    [][\A k \in Keys :
          (op'.name = "pop" /\ op'.key = k /\ imap_get(mem, imap[op'.m], k) = NULL) =>
              /\ op'.ret = NULL
              /\ mem' = mem]_vars

\* Key 64 was popped while absent; the descent went through the children array
\* that exists for the keys 32 and 1056.
C5_Witness ==
    /\ imap[1] # NULL
    /\ op.name = "pop" /\ op.key = 64 /\ op.ret = NULL
    /\ imap_get(mem, imap[1], 32) # NULL
    /\ imap_get(mem, imap[1], 1056) # NULL

\* C6: after imap_union_ref(dest, source), dest maps every key to the value it
\* had in dest, or in source when only source had it, and dest->len is the
\* number of distinct keys of the two maps; for keys of every depth.
C6_UnionIsKeyUnion ==
    [][op'.name = "union" =>
          /\ \A k \in Keys :
                 imap_get(mem', imap'[1], k) =
                     IF imap_get(mem, imap[1], k) # NULL
                     THEN imap_get(mem, imap[1], k)
                     ELSE imap_get(mem, imap[2], k)
          /\ mem'[imap'[1]].len =
                 Cardinality(Stored(mem, imap[1]) \cup Stored(mem, imap[2]))]_vars

\* A merge that ended with three keys in dest, the values 1 and 2 among them,
\* one of the keys having been in both maps.
C6_Witness ==
    /\ op.name = "union"
    /\ mem[imap[1]].len = 3
    /\ imap_get(mem, imap[1], 1056) = 2
    /\ imap_get(mem, imap[1], 32) = 1
    /\ ref[1] + ref[2] = -1

\* C7: imap_union_ref calls slist_object_decref exactly once for each key stored
\* in both maps and never for a key stored in one of them only: the reference
\* count of a value goes down by the number of shared keys that hold it (by 1
\* for a value shared under one key, not at all for any other value), and dest
\* keeps its value for every shared key.
C7_DecrefOncePerSharedKey ==
    [][op'.name = "union" =>
          /\ \A v \in Values :
                 ref'[v] = 0 - Cardinality({k \in Keys :
                                              /\ imap_get(mem, imap[1], k) # NULL
                                              /\ imap_get(mem, imap[2], k) = v})
          /\ \A k \in Stored(mem, imap[1]) \cap Stored(mem, imap[2]) :
                 imap_get(mem', imap'[1], k) = imap_get(mem, imap[1], k)]_vars

\* A merge with one key stored in both maps (value 1 released once) and the
\* value 2 stored in dest and not released.
C7_Witness ==
    /\ op.name = "union"
    /\ ref[1] = -1 /\ ref[2] = 0
    /\ \E k \in Keys : imap_get(mem, imap[1], k) = 2
    /\ mem[imap[1]].len = 3

\* C8: when add(k, v) returns -1 (a calloc failed at any depth), len and the
\* result of get for every key, k included, are the same as before the call.
C8_FailedAddChangesNoEntry ==
    [][(op'.name = "add" /\ op'.rc = -1) =>
          /\ mem'[imap'[op'.m]].len = mem[imap[op'.m]].len
          /\ \A k \in Keys :
                 imap_get(mem', imap'[op'.m], k) = imap_get(mem, imap[op'.m], k)]_vars

\* add(1056) failed at its second calloc, while key 0 is stored in the slot the
\* descent started from.
C8_Witness ==
    /\ imap[1] # NULL
    /\ op.name = "add" /\ op.rc = -1 /\ op.key = 1056
    /\ NodeAt(mem, <<imap[1], 0>>).nodes # NULL
    /\ NodeAt(mem, <<imap[1], 0>>).size = 0
    /\ imap_get(mem, imap[1], 0) # NULL

\* C9: in every reachable state, states after failed adds included, every node
\* reachable from a map has size = 0 exactly when its children array is absent.
C9_SizeZeroIffNoChildren ==
    \A i \in Maps :
        imap[i] # NULL =>
            \A a \in ReachFrom(mem, {imap[i]}) :
                \A j \in DOMAIN mem[a].nodes :
                    mem[a].nodes[j].size = 0 <=> mem[a].nodes[j].nodes = NULL

\* C10: imap_free and imap_free_cb, called in any reachable state, free every
\* children array that is still allocated, each once, and the map itself: no
\* children array is allocated afterwards and no block was freed twice.
C10_DestroyFreesEveryArray ==
    op.name \in {"free", "free_cb"} =>
        /\ \A a \in ArrAddr : ~mem[a].alloc
        /\ \A a \in MemAddr : ~mem[a].df
        /\ ~mem[MapAddr(op.m)].alloc

\* How often the value v occurs in the sequence seq.
Occurs(seq, v) == Cardinality({n \in DOMAIN seq : seq[n] = v})

\* Under how many keys the map at h stores the value v.
StoredUnder(m, h, v) == Cardinality({k \in Keys : imap_get(m, h, k) = v})

\* C11: imap_free_cb calls the call-back exactly once for every stored value,
\* at the top level and below, and never for a slot without data: the number of
\* calls is imap->len at the time of the call.
C11_DestroyCallsBackEachValue ==
    [][op'.name = "free_cb" /\ imap[op'.m] # NULL /\ imap'[op'.m] = NULL =>
        /\ Len(op'.cbs) = mem[imap[op'.m]].len
        /\ \A n \in DOMAIN op'.cbs : op'.cbs[n] \in Values
        /\ \A v \in Values :
              Occurs(op'.cbs, v) = StoredUnder(mem, imap[op'.m], v)]_vars

\* imap_free_cb has destroyed a map that held values at three depths.
C11_Witness ==
    /\ op.name = "free_cb"
    /\ Len(op.cbs) = 3
    /\ Occurs(op.cbs, 1) = 2

RECURSIVE SumOfResults(_, _, _, _)
\* What the call-back cb returns in total when it is called once for every
\* key under which a value of the set vs is stored.
SumOfResults(m, h, cb, vs) ==
    IF vs = {}
    THEN 0
    ELSE LET v == CHOOSE x \in vs : TRUE
         IN  cb[v] * StoredUnder(m, h, v) + SumOfResults(m, h, cb, vs \ {v})

\* C12: imap_walk calls the call-back exactly once per stored entry, does not
\* stop early whatever the call-back returns, and returns the sum of all the
\* call-back results (0 for an empty map).
C12_WalkSumsEveryEntry ==
    [][op'.name = "walk" =>
        /\ Len(op'.cbs) = mem[imap[op'.m]].len
        /\ \A v \in Values :
              Occurs(op'.cbs, v) = StoredUnder(mem, imap[op'.m], v)
        /\ op'.rc = SumOfResults(mem, imap[op'.m], op'.val, Values)]_vars

\* A walk over four entries with a call-back that returns a negative number
\* for one value and a positive one for the other.
C12_Witness ==
    /\ op.name = "walk"
    /\ Len(op.cbs) = 4
    /\ op.val[1] = -1
    /\ op.val[2] = 2
    /\ op.rc = 5

\* The smaller of two numbers.
Min(a, b) == IF a < b THEN a ELSE b

\* The call-back that returns 1 for every value.
ReturnsOne == [v \in Values |-> 1]

\* C13: with a call-back that returns 1, imap_walkn with budget n calls the
\* call-back on exactly min(n, imap->len) entries, the first ones of the order
\* of imap_walk, and on none once the budget is 0, also when the budget runs
\* out inside a nested level.
C13_WalknStopsAtBudget ==
    [][op'.name = "walkn" /\ op'.val = ReturnsOne =>
        /\ op'.cbs = SubSeq(imap_walk(mem, imap[op'.m], ReturnsOne).cbs, 1,
                            Min(op'.key, mem[imap[op'.m]].len))
        /\ op'.ret = op'.key - Len(op'.cbs)]_vars

\* A budget of 3 on a map of 4 entries: the third entry is two levels down and
\* the fourth is in the level above it.
C13_Witness ==
    /\ op.name = "walkn"
    /\ op.val = ReturnsOne
    /\ op.key = 3
    /\ op.ret = 0
    /\ Len(op.cbs) = 3
    /\ mem[imap[op.m]].len = 4

\* C14: in every state reached by add, pop and union calls, imap_2slist
\* returns a list of imap->len items that holds the value of every stored key
\* exactly once and nothing else, so no append exceeds the capacity.
C14_SequenceHoldsEveryValueOnce ==
    \A i \in Maps :
        imap[i] # NULL =>
            /\ imap_2slist(mem, imap[i], TRUE).cap = mem[imap[i]].len
            /\ Len(imap_2slist(mem, imap[i], TRUE).items) = mem[imap[i]].len
            /\ \A v \in Values :
                  Occurs(imap_2slist(mem, imap[i], TRUE).items, v)
                      = StoredUnder(mem, imap[i], v)

\* The list of a map that has just taken three entries from another map.
C14_Witness ==
    /\ op.name = "union"
    /\ imap[1] # NULL
    /\ mem[imap[1]].len = 3
    /\ imap_2slist(mem, imap[1], TRUE).items = <<1, 2, 2>>

\* C15: imap_2slist_ref increments the reference count by one for every stored
\* entry it appends, leaves the other values alone, and increments nothing when
\* the allocation of the list fails.
C15_IncrefOncePerEntry ==
    [][op'.name = "2slist_ref" =>
        /\ op'.rc = 0 =>
              /\ Len(op'.cbs) = mem[imap[op'.m]].len
              /\ \A v \in Values :
                    /\ ref'[v] = StoredUnder(mem, imap[op'.m], v)
                    /\ ref'[v] = Occurs(op'.cbs, v)
        /\ op'.rc = -1 => ref' = NoRefChange /\ op'.cbs = <<>>]_vars

\* A list with reference counts of a map that stores one value under two keys
\* and another value under one key.
C15_Witness ==
    /\ op.name = "2slist_ref"
    /\ op.rc = 0
    /\ ref[1] = 2
    /\ ref[2] = 1

\* The number of nodes with data in the children array of the node nd and
\* below it.
EntriesBelow(m, nd) ==
    IF NodeAt(m, nd).nodes = NULL
    THEN 0
    ELSE Len(IMAP_2slist(m, slist_new(0, TRUE), nd).items)

\* The nodes of the map at h: the slots in use of its blocks.
NodesOf(m, h) == {<<a, j>> : a \in ReachFrom(m, {h}), j \in Slots}

\* C16: in every state reached by add, pop and union calls, the size of each
\* node (top-level slots included) is the number of nodes with data reachable
\* through its children array, also in subtrees that a union transplanted or
\* merged.
C16_SizeCountsEntriesBelow ==
    \A i \in Maps :
        imap[i] # NULL =>
            \A nd \in NodesOf(mem, imap[i]) :
                NodeAt(mem, nd).size = EntriesBelow(mem, nd)

\* A union has merged a subtree of the source into a subtree of dest: the
\* top-level slot 0 of dest has two entries below it, one of them two levels
\* down.
C16_Witness ==
    /\ op.name = "union"
    /\ imap[1] # NULL
    /\ ref[1] = -1
    /\ NodeAt(mem, <<imap[1], 0>>).size = 2
    /\ NodeAt(mem, <<NodeAt(mem, <<imap[1], 0>>).nodes, 0>>).size = 1

\* The nodes of the blocks S whose children pointer is the array a.
Owners(m, S, a) == {nd \in S \X Slots : NodeAt(m, nd).nodes = a}

\* C17: imap_union_ref consumes the source without leaking or sharing: every
\* children array the source owned is afterwards owned by exactly one node of
\* dest or has been freed exactly once, no array of dest is reachable from two
\* nodes, and the source map is freed and its handle NULL, also when the
\* source is empty.
C17_UnionConsumesSource ==
    [][op'.name = "union" /\ imap[2] # NULL /\ imap'[2] = NULL =>
        /\ \A a \in ReachFrom(mem, {imap[2]}) \ {imap[2]} :
              \/ ~mem'[a].alloc /\ ~mem'[a].df
              \/ /\ mem'[a].alloc
                 /\ Cardinality(Owners(mem', ReachFrom(mem', {imap'[1]}), a)) = 1
        /\ \A a \in ReachFrom(mem', {imap'[1]}) \ {imap'[1]} :
              Cardinality(Owners(mem', ReachFrom(mem', {imap'[1]}), a)) = 1
        /\ ~mem'[imap[2]].alloc
        /\ ~mem'[imap[2]].df]_vars

\* The blocks reachable from the maps that exist.
LiveBlocks(m, hs) == ReachFrom(m, {hs[i] : i \in Maps} \ {NULL})

\* C20: in every reachable state, also after failed and retried adds, every
\* children array that is allocated and not freed is the children pointer of
\* exactly one node reachable from the map: IMAP_add never overwrites a
\* children pointer that is not NULL with a fresh allocation.
C20_EveryArrayOwnedOnce ==
    \A a \in ArrAddr :
        mem[a].alloc => Cardinality(Owners(mem, LiveBlocks(mem, imap), a)) = 1

RECURSIVE SlotPath(_)
\* The slots a key goes through, top level first: id % IMAP_NODE_SZ, then the
\* same for id / IMAP_NODE_SZ - 1 unless id / IMAP_NODE_SZ is 0.
SlotPath(id) ==
    IF id \div IMAP_NODE_SZ = 0
    THEN <<id % IMAP_NODE_SZ>>
    ELSE <<id % IMAP_NODE_SZ>> \o SlotPath(id \div IMAP_NODE_SZ - 1)

RECURSIVE PathBefore(_, _)
\* The node at path p is visited before the node at path q: ascending slot
\* index at every level, a node before the subtree below it.
PathBefore(p, q) ==
    IF p = <<>>
    THEN q # <<>>
    ELSE IF q = <<>>
         THEN FALSE
         ELSE IF p[1] # q[1]
              THEN p[1] < q[1]
              ELSE PathBefore(Tail(p), Tail(q))

\* The position of the stored key k in that order.
Rank(m, h, k) ==
    1 + Cardinality({j \in Stored(m, h) : PathBefore(SlotPath(j), SlotPath(k))})

\* The stored values in that order.
ValuesInOrder(m, h) ==
    [n \in 1..Cardinality(Stored(m, h)) |->
        imap_get(m, h, CHOOSE k \in Stored(m, h) : Rank(m, h, k) = n)]

\* C18: imap_walk, imap_walkn, imap_2slist, imap_2slist_ref and imap_free_cb
\* all visit the entries in the same order: ascending slot index at every
\* level, a slot's own value before its subtree, the whole subtree before the
\* next slot; the list of imap_2slist is the call-back sequence of imap_walk.
C18_OneTraversalOrder ==
    \A i \in Maps :
        imap[i] # NULL =>
            /\ imap_walk(mem, imap[i], ReturnsOne).cbs = ValuesInOrder(mem, imap[i])
            /\ imap_walkn(mem, imap[i], MaxBudget, ReturnsOne).cbs
                   = ValuesInOrder(mem, imap[i])
            /\ imap_2slist(mem, imap[i], TRUE).items = ValuesInOrder(mem, imap[i])
            /\ imap_2slist_ref(mem, NoRefChange, imap[i], TRUE).sl.items
                   = ValuesInOrder(mem, imap[i])
            /\ imap_free_cb(mem, imap[i]).cbs = ValuesInOrder(mem, imap[i])

\* imap_2slist has listed four entries: key 0 at the top level, key 32 below
\* it, key 1056 below that one, and then key 64 next to key 32.
C18_Witness ==
    /\ op.name = "2slist"
    /\ op.cbs = <<1, 2, 1, 2>>
    /\ imap_get(mem, imap[1], 1056) = 1
    /\ imap_get(mem, imap[1], 64) = 2
    /\ imap_walk(mem, imap[1], ReturnsOne).cbs = <<1, 2, 1, 2>>

\* A uint64_t id as its digits to the base IMAP_NODE_SZ, lowest first: 12
\* digits of 5 bits and a 13th of 4 bits.
U64Digits == 13

\* The largest 13th digit: 2^64 = 16 * 32^12.
U64TopDigit == 15

\* UINT64_MAX
U64Max == [n \in 1..U64Digits |-> IF n = U64Digits THEN U64TopDigit ELSE IMAP_NODE_SZ - 1]

\* !id
IsZero(id) == \A n \in 1..U64Digits : id[n] = 0

\* id % IMAP_NODE_SZ
Mod32(id) == id[1]

\* id / IMAP_NODE_SZ
Div32(id) == Tail(id) \o <<0>>

\* The lowest digit of id that is not 0.
LowestSet(id) == CHOOSE n \in 1..U64Digits : id[n] # 0 /\ \A j \in 1..(n - 1) : id[j] = 0

\* id - 1 in uint64_t: 0 - 1 is UINT64_MAX.
Dec(id) ==
    IF IsZero(id)
    THEN U64Max
    ELSE [n \in 1..U64Digits |->
             IF n < LowestSet(id) THEN IMAP_NODE_SZ - 1
             ELSE IF n = LowestSet(id) THEN id[n] - 1
             ELSE id[n]]

\* A descent for the key k that has not taken a slot yet: id is what is left
\* of the key, path the slots taken, wrapped whether a subtraction wrapped.
StartDescent(k) ==
    [key |-> k, id |-> k, path |-> <<>>, done |-> FALSE, wrapped |-> FALSE]

\* The descent that ends one level early, when id / IMAP_NODE_SZ is 0 or 1.
DescendLevel_stopAtOne(d) ==
    IF d.done
    THEN d
    ELSE IF IsZero(Div32(d.id)) \/ IsZero(Dec(Div32(d.id)))
         THEN [d EXCEPT !.path = Append(@, Mod32(d.id)), !.id = Div32(d.id),
                        !.done = TRUE]
         ELSE [d EXCEPT !.path = Append(@, Mod32(d.id)), !.id = Dec(Div32(d.id)),
                        !.wrapped = @ \/ IsZero(Div32(d.id))]

\* One level of imap_add or IMAP_add: nd = nodes + id % IMAP_NODE_SZ;
\* id /= IMAP_NODE_SZ; the descent ends here if (!id), and goes on with id - 1
\* otherwise.
DescendLevel(d) ==
    IF d.done
    THEN d
    ELSE IF IsZero(Div32(d.id))
         THEN [d EXCEPT !.path = Append(@, Mod32(d.id)), !.id = Div32(d.id),
                        !.done = TRUE]
         ELSE [d EXCEPT !.path = Append(@, Mod32(d.id)), !.id = Dec(Div32(d.id)),
                        !.wrapped = @ \/ IsZero(Div32(d.id))]

\* The three lowest digits of the keys that are descended.
DescentLow == {<<a, b, c>> : a \in {0, 31}, b \in {0, 1, 31}, c \in {0, 1, 31}}

\* Their digits 4 to 12 (all the same) and their 13th digit: small keys, keys
\* from UINT64_MAX down, and keys with a long run of 0 digits below the top.
DescentHigh == {<<0, 0>>, <<IMAP_NODE_SZ - 1, U64TopDigit>>, <<0, U64TopDigit>>}

DescentKey(low, high) ==
    [n \in 1..U64Digits |->
        IF n <= 3 THEN low[n] ELSE IF n = U64Digits THEN high[2] ELSE high[1]]

DescentKeys == {DescentKey(low, high) : low \in DescentLow, high \in DescentHigh}

\* Two keys are about to be added to the map.
InitDescent ==
    /\ mem = [a \in MemAddr |-> IF a = MapAddr(1) THEN imap_new([b \in MemAddr |-> FreeBlock], a)[a]
                                ELSE FreeBlock]
    /\ imap = [m \in Maps |-> IF m = 1 THEN MapAddr(1) ELSE NULL]
    /\ ref = NoRefChange
    /\ dict = [m \in Maps |-> EmptyDict]
    /\ \E ka \in DescentKeys, kb \in DescentKeys :
        op = [name |-> "descend", a |-> StartDescent(ka), b |-> StartDescent(kb)]

\* The first level of both descents, in imap_add (imap.c:112-127).
DescendTop ==
    /\ op.a.path = <<>>
    /\ op' = [op EXCEPT !.a = DescendLevel(@), !.b = DescendLevel(@)]
    /\ UNCHANGED <<mem, imap, ref, dict>>

\* The next level of the descents that have not ended, in IMAP_add
\* (imap.c:429-442).
DescendNode ==
    /\ op.a.path # <<>>
    /\ ~op.a.done \/ ~op.b.done
    /\ op' = [op EXCEPT !.a = DescendLevel(@), !.b = DescendLevel(@)]
    /\ UNCHANGED <<mem, imap, ref, dict>>

NextDescent ==
    \/ DescendTop
    \/ DescendNode

SpecDescent == InitDescent /\ [][NextDescent]_vars

\* C19: the descent (slot = id % 32, id = id / 32, end if id is 0, else go on
\* with id - 1) ends for every 64-bit key after at most 13 levels, no
\* subtraction wraps, and two different keys never end at the same node, also
\* for keys near 2^64 - 1 and keys whose next digit is 0.
C19_DescentEndsAndIsInjective ==
    /\ \A d \in {op.a, op.b} :
          /\ Len(d.path) <= U64Digits
          /\ Len(d.path) = U64Digits => d.done
          /\ ~d.wrapped
    /\ op.a.done /\ op.b.done /\ op.a.path = op.b.path => op.a.key = op.b.key

\* UINT64_MAX has ended at level 13 and 1024, whose second digit is 0, at
\* level 2 in slot 31 below slot 0.
C19_Witness ==
    /\ op.a.done /\ op.b.done
    /\ op.a.key = U64Max
    /\ Len(op.a.path) = U64Digits
    /\ op.b.key = DescentKey(<<0, 0, 1>>, <<0, 0>>)
    /\ op.b.path = <<0, 31>>

====
